---- MODULE Spec2Model ----
(***************************************************************************)
(* Model of the brain-weights microservice (src/25/server.py): the         *)
(* in-memory snapshot (GLOBAL_* collections), its rebuild                  *)
(* (preload_all_data), the background reload loop, the service lifespan    *)
(* and the feature computation (calculate_pure_memory).                    *)
(*                                                                         *)
(* Time is counted in minutes.  A rate value is an integer number of       *)
(* 10^-7 units; a value returned by /values is an integer number of 10^-6  *)
(* units (the result of round(v, 6)).  A weight code "12_1_0_-3" is the    *)
(* tuple <<12, 1, 0, -3>> of its underscore-separated components.          *)
(***************************************************************************)
EXTENDS Integers, Sequences, FiniteSets, TLC

VARIABLES
    db,                   \* the relational store (both databases)
    GLOBAL_EXTREMUMS,     \* table -> [min: set of dates, max: set of dates]
    GLOBAL_RATES,         \* table -> (date -> t1)
    GLOBAL_CALENDAR,      \* date -> list of occurrences
    GLOBAL_HISTORY,       \* event id -> list of dates
    GLOBAL_LAST_CANDLES,  \* table -> list of <<date, is_bull>>
    GLOBAL_WEIGHT_CODES,  \* list of weight codes
    GLOBAL_EVENT_TYPES,   \* event id -> 0 | 1
    LAST_RELOAD_TIME,     \* NULL until a rebuild has completed
    life,                 \* position of lifespan()
    bg,                   \* position of background_reload_data()
    pl,                   \* position of the running preload_all_data()
    req,                  \* the /values or trend request waiting for the event loop
    resp,                 \* the last response produced
    hist                  \* history variables (not program state): the snapshot when
                          \* the running rebuild started, whether the store changed
                          \* since, whether a background
                          \* rebuild has failed, whether the first build completed

vars == <<db, GLOBAL_EXTREMUMS, GLOBAL_RATES, GLOBAL_CALENDAR, GLOBAL_HISTORY,
          GLOBAL_LAST_CANDLES, GLOBAL_WEIGHT_CODES, GLOBAL_EVENT_TYPES,
          LAST_RELOAD_TIME, life, bg, pl, req, resp, hist>>

snapvars == <<GLOBAL_EXTREMUMS, GLOBAL_RATES, GLOBAL_CALENDAR, GLOBAL_HISTORY,
              GLOBAL_LAST_CANDLES, GLOBAL_WEIGHT_CODES, GLOBAL_EVENT_TYPES,
              LAST_RELOAD_TIME>>

-----------------------------------------------------------------------------
(* Units and Python / SQL primitives *)

\* Python None and SQL NULL, where the other values are integers
NULL == -1

\* timedelta(hours=1), in minutes
HOUR == 60

\* timedelta(days=1), in minutes
DAY == 24 * HOUR

\* window = 12
window == 12

\* an empty dict
EmptyDict == [k \in {} |-> NULL]

\* d.get(k, default)
DictGet(d, k, default) == IF k \in DOMAIN d THEN d[k] ELSE default

\* d[k] = v
DictSet(d, k, v) == [x \in (DOMAIN d) \cup {k} |-> IF x = k THEN v ELSE d[x]]

\* int(a / b) for b > 0: truncation toward zero
TruncDiv(a, b) == IF a >= 0 THEN a \div b ELSE -((-a) \div b)

\* round-half-even of n / d, d > 0 (Python round)
RoundHalfEven(n, d) ==
    LET q == n \div d
        r == n - q * d
    IN  IF 2 * r < d THEN q
        ELSE IF 2 * r > d THEN q + 1
        ELSE IF q % 2 = 0 THEN q ELSE q + 1

\* the elements of a set of integers in increasing order: sorted(...)
RECURSIVE SortedSeq(_)
SortedSeq(S) ==
    IF S = {} THEN <<>>
    ELSE LET m == CHOOSE x \in S : \A y \in S : x <= y
         IN  <<m>> \o SortedSeq(S \ {m})

\* the concatenation of a sequence of sequences
RECURSIVE Flatten(_)
Flatten(ss) == IF ss = <<>> THEN <<>> ELSE Head(ss) \o Flatten(Tail(ss))

\* the set of elements of a sequence
Range(s) == {s[i] : i \in DOMAIN s}

-----------------------------------------------------------------------------
(* Request-side helpers of server.py *)

\* the instrument part of the table name: table_map.get(pair_id, 'brain_rates_eur_usd')
table_map_get(pair_id) ==
    CASE pair_id = 1 -> "brain_rates_eur_usd"
      [] pair_id = 3 -> "brain_rates_btc_usd"
      [] pair_id = 4 -> "brain_rates_eth_usd"
      [] OTHER -> "brain_rates_eur_usd"

\* a table name is the pair <<instrument part, suffix>>
get_rates_table_name(pair_id, day_flag) ==
    <<table_map_get(pair_id), IF day_flag = 1 THEN "_day" ELSE "">>

\* the scale factor, as a number of 10^-6 units
get_modification_factor(pair_id) ==
    CASE pair_id = 1 -> 1000
      [] pair_id = 3 -> 1000000000
      [] pair_id = 4 -> 100000000
      [] OTHER -> 1000000

\* A date string is modelled by the timestamp it denotes, or by BadDate when
\* it matches none of the formats.
BadDate == NULL

parse_date_string(date_str) == IF date_str = BadDate THEN NULL ELSE date_str

\* (d1, b1) < (d2, b2) on Python tuples, False < True
TupleLess(c, x) == c[1] < x[1] \/ (c[1] = x[1] /\ ~c[2] /\ x[2])

\* bisect.bisect_left(a, x, lo, hi), lo and hi 0-based
RECURSIVE bisect_left(_, _, _, _)
bisect_left(a, x, lo, hi) ==
    IF lo < hi
    THEN LET mid == (lo + hi) \div 2
         IN  IF TupleLess(a[mid + 1], x)
             THEN bisect_left(a, x, mid + 1, hi)
             ELSE bisect_left(a, x, lo, mid)
    ELSE lo

\* the result None of find_prev_candle_trend
NoCandle == <<>>

\* mutant: the search key (target_date, True) also passes the candles at the target
prev_index_incl(candles, target_date) ==
    bisect_left(candles, <<target_date, TRUE>>, 0, Len(candles))

prev_index(candles, target_date) == bisect_left(candles, <<target_date, FALSE>>, 0, Len(candles))

find_prev_candle_trend(S, table, target_date) ==
    LET candles == DictGet(S.candles, table, <<>>)
    IN  IF candles = <<>> THEN NoCandle
        ELSE LET idx == prev_index(candles, target_date)
             IN  IF idx > 0 THEN candles[idx] ELSE NoCandle

\* the granularity unit of the offsets: hours if day == 0 else days
offset_unit(day) == IF day = 0 THEN HOUR ELSE DAY

\* mutant: range(-window, window) leaves out the last offset
check_dates_short(target_date, day) ==
    [i \in 1..(2 * window) |-> target_date + (i - window - 1) * offset_unit(day)]

\* check_dates, lines 218-224
check_dates(target_date, day) ==
    [i \in 1..(2 * window + 1) |-> target_date + (i - window - 1) * offset_unit(day)]

\* mutant: the importance test the other way round
in_window_filter_top(e, dt, target_date) == e.Importance = 1 \/ dt = target_date

\* the condition of line 228
in_window_filter(e, dt, target_date) == e.Importance # 1 \/ dt = target_date

events_in_window(S, target_date, day) ==
    LET cd == check_dates(target_date, day)
    IN  Flatten([i \in DOMAIN cd |->
            SelectSeq(DictGet(S.calendar, cd[i], <<>>),
                      LAMBDA e : in_window_filter(e, cd[i], target_date))])

\* mutant: the difference taken the other way round
shift_of_reversed(target_date, event_date, day) ==
    LET diff == event_date - target_date
    IN  IF day = 0 THEN TruncDiv(diff * 60, 3600) ELSE diff \div DAY

\* lines 233-234
shift_of(target_date, event_date, day) ==
    LET diff == target_date - event_date
    IN  IF day = 0 THEN TruncDiv(diff * 60, 3600) ELSE diff \div DAY

\* mutant: the window test alone, whatever the type
needed_filter_loose(evt_type, shift) ==
    (IF shift < 0 THEN -shift ELSE shift) <= window

\* the negation of the condition of line 237
needed_filter(evt_type, shift) ==
    ~((evt_type = 0 /\ shift # 0) \/ (evt_type = 1 /\ (IF shift < 0 THEN -shift ELSE shift) > window))

needed_events(S, target_date, day) ==
    LET ew == events_in_window(S, target_date, day)
        tr == [i \in DOMAIN ew |->
                 [e |-> ew[i],
                  shift |-> shift_of(target_date, ew[i].event_date, day),
                  evt_type |-> DictGet(S.event_types, ew[i].EventId, 0)]]
    IN  SelectSeq(tr, LAMBDA t : needed_filter(t.evt_type, t.shift))

\* A value before rounding is the exact number c * m / d of 10^-6 units.
\* sum_t1, line 257: rates are numbers of 10^-7 units
sum_t1(ram_rates, t_dates) ==
    LET RECURSIVE Sum(_)
        Sum(i) == IF i = 0 THEN 0 ELSE Sum(i - 1) + DictGet(ram_rates, t_dates[i], 0)
    IN  [c |-> Sum(Len(t_dates)), m |-> 1, d |-> 10]

\* line 266: ((matches / total) * 2 - 1) * modification
trend_value(matches, total, modification) ==
    [c |-> 2 * matches - total, m |-> modification, d |-> total]

\* v != 0
NonZero(v) == v.c # 0

\* round(v, 6), as a number of 10^-6 units
round6(v) == v.c * (v.m \div v.d) + RoundHalfEven(v.c * (v.m % v.d), v.d)

\* key0 / key1, lines 253-254
weight_key(evt_id, evt_type, mode, shift) ==
    IF evt_type = 1 THEN <<evt_id, evt_type, mode, shift>> ELSE <<evt_id, evt_type, mode>>

\* mutant: the occurrence at the target counts as history
valid_dates_incl(S, evt_id, target_date) ==
    SelectSeq(DictGet(S.history, evt_id, <<>>), LAMBDA d : d <= target_date)

\* valid_dates, line 250
valid_dates(S, evt_id, target_date) ==
    SelectSeq(DictGet(S.history, evt_id, <<>>), LAMBDA d : d < target_date)

\* mutant: the shift applied backwards
t_dates_back(vd, shift, day) == [i \in DOMAIN vd |-> vd[i] - shift * offset_unit(day)]

\* t_dates, line 256
t_dates(vd, shift, day) == [i \in DOMAIN vd |-> vd[i] + shift * offset_unit(day)]

\* mutant: the extremum sets taken the other way round
ext_set_swapped(ram_ext, is_bull) == IF is_bull THEN ram_ext.min ELSE ram_ext.max

\* ext_set, line 262
ext_set(ram_ext, is_bull) == IF is_bull THEN ram_ext.max ELSE ram_ext.min

\* mutant: the trend value is computed without a trend reference
mode1_applies_any(prev_candle, total) == total > 0

\* the conditions of lines 260 and 265
mode1_applies(prev_candle, total) == prev_candle # NoCandle /\ total > 0

\* one iteration of the loop of lines 249-266
result_step(S, result, t, rates_table, modification, target_date, day) ==
    LET ram_rates   == DictGet(S.rates, rates_table, EmptyDict)
        ram_ext     == DictGet(S.extremums, rates_table, [min |-> {}, max |-> {}])
        prev_candle == find_prev_candle_trend(S, rates_table, target_date)
        vd          == valid_dates(S, t.e.EventId, target_date)
        td          == t_dates(vd, t.shift, day)
        key0        == weight_key(t.e.EventId, t.evt_type, 0, t.shift)
        key1        == weight_key(t.e.EventId, t.evt_type, 1, t.shift)
        r0          == DictSet(result, key0, sum_t1(ram_rates, td))
        \* line 261, reached only with a candle
        is_bull     == IF prev_candle = NoCandle THEN FALSE ELSE prev_candle[2]
        es          == ext_set(ram_ext, is_bull)
        matches     == Cardinality({i \in DOMAIN td : td[i] \in es})
        total       == Len(vd)
    IN  IF vd = <<>> THEN result
        ELSE IF mode1_applies(prev_candle, total)
             THEN DictSet(r0, key1, trend_value(matches, total, modification))
             ELSE r0

\* the response of /values: a JSON object, either {"error": ...} or the map
ErrorBody == [error |-> TRUE, values |-> EmptyDict]

OkBody(m) == [error |-> FALSE, values |-> m]

\* line 268
round_and_drop(result) ==
    [k \in {x \in DOMAIN result : NonZero(result[x])} |-> round6(result[k])]

\* the dict `result` when the loop of lines 249-266 is over
result_loop(S, ne, rates_table, modification, target_date, day) ==
    LET RECURSIVE Loop(_)
        Loop(i) == IF i = 0 THEN EmptyDict
                   ELSE result_step(S, Loop(i - 1), ne[i], rates_table,
                                    modification, target_date, day)
    IN  Loop(Len(ne))

\* the values of `total` with which the division of line 266 is executed
trend_totals(S, ne, rates_table, target_date) ==
    LET prev_candle == find_prev_candle_trend(S, rates_table, target_date)
        total(i)    == Len(valid_dates(S, ne[i].e.EventId, target_date))
    IN  {total(i) : i \in {j \in DOMAIN ne :
                             /\ valid_dates(S, ne[j].e.EventId, target_date) # <<>>
                             /\ mode1_applies(prev_candle, total(j))}}

calculate_pure_memory(S, pair, day, date_str) ==
    LET target_date  == parse_date_string(date_str)
        rates_table  == get_rates_table_name(pair, day)
        modification == get_modification_factor(pair)
        ne           == needed_events(S, target_date, day)
    IN  IF target_date = NULL THEN ErrorBody
        ELSE IF ne = <<>> THEN OkBody(EmptyDict)
        ELSE OkBody(round_and_drop(
                 result_loop(S, ne, rates_table, modification, target_date, day)))

\* mutant: the calendar is read with setdefault, which stores the default
compute_effect_setdefault(S, date_str, day) ==
    IF parse_date_string(date_str) = NULL THEN S
    ELSE LET cd == check_dates(parse_date_string(date_str), day)
         IN  [S EXCEPT !.calendar =
                [dt \in (DOMAIN S.calendar) \cup Range(cd) |-> DictGet(S.calendar, dt, <<>>)]]

\* what a call of calculate_pure_memory leaves in the GLOBAL_* collections:
\* lines 209-268 read them with .get and assign only to locals
compute_effect(S, date_str, day) == S

-----------------------------------------------------------------------------
(* The code generator of src/23/weights.py *)

\* an element of the list `events`: EventType is the string '0' or '1'
EventDef(eid, etype) == [EventId |-> eid, EventType |-> etype]

\* the component an f-string prints for etype
etype_text(etype) == CASE etype = "0" -> 0 [] etype = "1" -> 1

\* mutant: range(-12, 12)
hour_range_short == [i \in 1..(2 * window) |-> i - window - 1]

\* range(-12, 13), line 103
hour_range == [i \in 1..(2 * window + 1) |-> i - window - 1]

\* the codes appended for one event, lines 91-111
event_codes(event) ==
    LET eid   == event.EventId
        etype == etype_text(event.EventType)
    IN  << <<eid, etype, 0>>, <<eid, etype, 1>> >> \o
        (IF event.EventType = "1"
         THEN Flatten([i \in DOMAIN hour_range |->
                         << <<eid, etype, 0, hour_range[i]>>,
                            <<eid, etype, 1, hour_range[i]>> >>])
         ELSE <<>>)

generate_binary_matrix(events) == Flatten([i \in DOMAIN events |-> event_codes(events[i])])

-----------------------------------------------------------------------------
(* The snapshot and the steps of preload_all_data *)

\* the GLOBAL_* collections as one record
Snap ==
    [extremums    |-> GLOBAL_EXTREMUMS,
     rates        |-> GLOBAL_RATES,
     calendar     |-> GLOBAL_CALENDAR,
     history      |-> GLOBAL_HISTORY,
     candles      |-> GLOBAL_LAST_CANDLES,
     weight_codes |-> GLOBAL_WEIGHT_CODES,
     event_types  |-> GLOBAL_EVENT_TYPES,
     last_reload  |-> LAST_RELOAD_TIME]

\* the module-level initial values, lines 62-69
EmptySnap ==
    [extremums    |-> EmptyDict,
     rates        |-> EmptyDict,
     calendar     |-> EmptyDict,
     history      |-> EmptyDict,
     candles      |-> EmptyDict,
     weight_codes |-> <<>>,
     event_types  |-> EmptyDict,
     last_reload  |-> NULL]

\* the GLOBAL_* collections hold S
Installed(S) ==
    \E X \in {S} :
        /\ GLOBAL_EXTREMUMS = X.extremums
        /\ GLOBAL_RATES = X.rates
        /\ GLOBAL_CALENDAR = X.calendar
        /\ GLOBAL_HISTORY = X.history
        /\ GLOBAL_LAST_CANDLES = X.candles
        /\ GLOBAL_WEIGHT_CODES = X.weight_codes
        /\ GLOBAL_EVENT_TYPES = X.event_types
        /\ LAST_RELOAD_TIME = X.last_reload

\* assignment of the GLOBAL_* collections
Install(S) ==
    \E X \in {S} :
        /\ GLOBAL_EXTREMUMS' = X.extremums
        /\ GLOBAL_RATES' = X.rates
        /\ GLOBAL_CALENDAR' = X.calendar
        /\ GLOBAL_HISTORY' = X.history
        /\ GLOBAL_LAST_CANDLES' = X.candles
        /\ GLOBAL_WEIGHT_CODES' = X.weight_codes
        /\ GLOBAL_EVENT_TYPES' = X.event_types
        /\ LAST_RELOAD_TIME' = X.last_reload

\* the list of line 141, a table name being <<instrument part, suffix>>
tables ==
    << <<"brain_rates_eur_usd", "">>, <<"brain_rates_eur_usd", "_day">>,
       <<"brain_rates_btc_usd", "">>, <<"brain_rates_btc_usd", "_day">>,
       <<"brain_rates_eth_usd", "">>, <<"brain_rates_eth_usd", "_day">> >>

\* lines 111-112
load_weight_codes(S, d) == [S EXCEPT !.weight_codes = d.weights]

\* line 119-120: cnt = occurrence_count or 0; 1 if cnt > 1 else 0
event_type_of(occurrence_count) ==
    LET cnt == IF occurrence_count = NULL THEN 0 ELSE occurrence_count
    IN  IF cnt > 1 THEN 1 ELSE 0

\* mutant: the map is not cleared before it is filled
load_event_types_kept(S, d) ==
    [S EXCEPT !.event_types =
        [eid \in (DOMAIN S.event_types) \cup (DOMAIN d.events) |->
            IF eid \in DOMAIN d.events THEN event_type_of(d.events[eid])
            ELSE S.event_types[eid]]]

\* lines 115-120
load_event_types(S, d) ==
    [S EXCEPT !.event_types = [eid \in DOMAIN d.events |-> event_type_of(d.events[eid])]]

\* lines 123-138; rows come in the order the store keeps them
load_calendar(S, d) ==
    LET rows == SelectSeq(d.calendar, LAMBDA r : r.event_id # NULL)
        RECURSIVE Cal(_)
        Cal(i) ==
            IF i = 0 THEN [calendar |-> EmptyDict, history |-> EmptyDict]
            ELSE LET acc == Cal(i - 1)
                     dt  == rows[i].occurrence_time_utc
                     eid == rows[i].event_id
                     imp == rows[i].importance
                 IN  [calendar |-> DictSet(acc.calendar, dt,
                          Append(DictGet(acc.calendar, dt, <<>>),
                                 [EventId |-> eid, Importance |-> imp, event_date |-> dt])),
                      history  |-> DictSet(acc.history, eid,
                          Append(DictGet(acc.history, eid, <<>>), dt))]
        built == Cal(Len(rows))
    IN  [S EXCEPT !.calendar = built.calendar, !.history = built.history]

\* lines 148-150
reset_table(S, table) ==
    [S EXCEPT !.rates = DictSet(S.rates, table, EmptyDict),
              !.candles = DictSet(S.candles, table, <<>>),
              !.extremums = DictSet(S.extremums, table, [min |-> {}, max |-> {}])]

\* lines 153-160; d.rates[table] maps a date to its row
load_rows(S, d, table) ==
    LET tab   == d.rates[table]
        dates == SortedSeq(DOMAIN tab)
    IN  [S EXCEPT
           !.rates = DictSet(S.rates, table,
                [dt \in {x \in DOMAIN tab : tab[x].t1 # NULL} |-> tab[dt].t1]),
           !.candles = DictSet(S.candles, table,
                [i \in DOMAIN dates |-> <<dates[i], tab[dates[i]].close > tab[dates[i]].open>>])]

\* the query of lines 165-170
extremum_query(tab, typ) ==
    {dt \in DOMAIN tab :
        /\ dt - HOUR \in DOMAIN tab
        /\ dt + HOUR \in DOMAIN tab
        /\ IF typ = "max"
           THEN tab[dt].max > tab[dt - HOUR].max /\ tab[dt].max > tab[dt + HOUR].max
           ELSE tab[dt].min < tab[dt - HOUR].min /\ tab[dt].min < tab[dt + HOUR].min}

\* lines 171-172
load_extremum(S, d, table, typ) ==
    [S EXCEPT !.extremums = DictSet(S.extremums, table,
        IF typ = "max"
        THEN [min |-> S.extremums[table].min, max |-> extremum_query(d.rates[table], "max")]
        ELSE [min |-> extremum_query(d.rates[table], "min"), max |-> S.extremums[table].max])]

\* line 174: the clock is not modelled; any completed rebuild leaves a time
Now == 1

set_reload_time(S) == [S EXCEPT !.last_reload = Now]

\* a whole run of preload_all_data against an unchanging store
Build(S, d) ==
    LET RECURSIVE Tables(_)
        Tables(i) ==
            IF i = 0 THEN load_calendar(load_event_types(load_weight_codes(S, d), d), d)
            ELSE load_extremum(
                    load_extremum(
                        load_rows(reset_table(Tables(i - 1), tables[i]), d, tables[i]),
                        d, tables[i], "min"),
                    d, tables[i], "max")
    IN  set_reload_time(Tables(Len(tables)))

-----------------------------------------------------------------------------
(* The relational store and what external collaborators do to it *)

\* the timestamp the requests of the model ask about
T0 == 20 * DAY

Row(open, close, t1, min, max) ==
    [open |-> open, close |-> close, t1 |-> t1, min |-> min, max |-> max]

Occ(event_id, time, importance) ==
    [event_id |-> event_id, occurrence_time_utc |-> time, importance |-> importance]

NoRows == [dt \in {} |-> Row(0, 0, 0, 0, 0)]

EurHour ==
    (T0 - HOUR :> Row(10, 12, 11000004, 9, 13)) @@
    (T0        :> Row(12, 11, 12000000, 8, 15)) @@
    (T0 + HOUR :> Row(11, 11, NULL, 9, 14))

EurDay ==
    (T0 - DAY :> Row(10, 9, 300, 9, 13)) @@
    (T0       :> Row(9, 12, 70, 8, 15))

BtcHour ==
    (T0 - HOUR :> Row(10, 12, 5, 9, 13)) @@
    (T0 + HOUR :> Row(12, 13, 20, 9, 14))

\* the store the service is started against; its weights table is the file
\* weights.py wrote for the events 1 (cyclic) and 2 (counted once)
DB0 ==
    [weights  |-> generate_binary_matrix(<<EventDef(1, "1"), EventDef(2, "0")>>),
     events   |-> (1 :> 3) @@ (2 :> 1),
     calendar |-> << Occ(1, T0 - 2 * DAY, 2), Occ(1, T0 - 3 * HOUR, 3),
                     Occ(2, T0 - 5 * DAY, 1), Occ(2, T0, 1) >>,
     rates    |-> (tables[1] :> EurHour) @@ (tables[2] :> EurDay) @@
                  (tables[3] :> BtcHour) @@ (tables[4] :> NoRows) @@
                  (tables[5] :> NoRows) @@ (tables[6] :> NoRows)]

\* the changes external collaborators may make: rows are appended or
\* updated, each of these once
ExtChanges(d) ==
    { [d EXCEPT !.events = DictSet(@, 2, 2)],
      [d EXCEPT !.rates[tables[3]] = DictSet(@, T0, Row(12, 11, 30, 7, 16))] }

-----------------------------------------------------------------------------
(* The processes: lifespan, background_reload_data, preload_all_data *)

Idle == [task |-> "none", pc |-> "idle", i |-> 0]

NoReq == [kind |-> "none"]

Init ==
    /\ db = DB0
    /\ Installed(EmptySnap)
    /\ life = "created"
    /\ bg = "none"
    /\ pl = Idle
    /\ req = NoReq
    /\ resp = NoReq
    /\ hist = [old |-> EmptySnap, changed |-> FALSE, failed |-> FALSE, reloads |-> 0,
               built |-> FALSE]

\* the single-threaded event loop is free unless the synchronous
\* requests.post of send_error_trace (line 35) is running
LoopFree == bg # "reporting"

\* mutant: cancel() does not stop the task
Runnable_uncancelled ==
    /\ LoopFree
    /\ \/ pl.task = "lifespan"
       \/ pl.task = "bg" /\ bg \in {"reloading", "cancelling"}

\* the task running preload_all_data can be resumed
Runnable ==
    /\ LoopFree
    /\ \/ pl.task = "lifespan"
       \/ pl.task = "bg" /\ bg = "reloading"

\* the call of preload_all_data: runs up to the first await (line 109)
enter_preload(task) ==
    /\ pl' = [task |-> task, pc |-> "vlad_connect", i |-> 0]
    /\ hist' = [hist EXCEPT !.old = Snap, !.changed = FALSE]

\* mutant: the background task is created before the first build
bg_at_startup_early == "sleeping"

\* the background task while lifespan awaits the first build: create_task
\* is at line 194, after the await of line 192
bg_at_startup == "none"

\* lifespan is entered when the server starts: line 192
lifespan_enter ==
    /\ life = "created"
    /\ life' = "startup"
    /\ bg' = bg_at_startup
    /\ enter_preload("lifespan")
    /\ UNCHANGED <<db, snapvars, req, resp>>

\* a step of preload_all_data that resumes at `from`, leaves the snapshot S
\* and suspends at `to`
preload_step(from, to, S, i) ==
    /\ Runnable
    /\ pl.pc = from
    /\ Install(S)
    /\ pl' = [pl EXCEPT !.pc = to, !.i = i]
    /\ UNCHANGED <<db, life, bg, req, resp, hist>>

\* line 109: the connection is there
vlad_connected == preload_step("vlad_connect", "q_weight_codes", Snap, 0)

\* lines 111-112
weight_codes_loaded ==
    preload_step("q_weight_codes", "q_event_types", load_weight_codes(Snap, db), 0)

\* lines 115-120
event_types_loaded ==
    preload_step("q_event_types", "q_calendar", load_event_types(Snap, db), 0)

\* lines 123-138, up to the release of the connection
calendar_loaded ==
    preload_step("q_calendar", "vlad_release", load_calendar(Snap, db), 0)

\* lines 147-152 for the first table
vlad_released ==
    preload_step("vlad_release", "brain_connect", reset_table(Snap, tables[1]), 1)

\* line 152: the connection is there
brain_connected == preload_step("brain_connect", "q_rows", Snap, pl.i)

\* lines 153-160
rows_loaded ==
    preload_step("q_rows", "q_min", load_rows(Snap, db, tables[pl.i]), pl.i)

\* lines 162-172, typ = 'min'
min_loaded ==
    preload_step("q_min", "q_max", load_extremum(Snap, db, tables[pl.i], "min"), pl.i)

\* lines 162-172, typ = 'max', up to the release of the connection
max_loaded ==
    preload_step("q_max", "brain_release", load_extremum(Snap, db, tables[pl.i], "max"), pl.i)

\* lines 147-152 for the next table
next_table ==
    /\ pl.i < Len(tables)
    /\ preload_step("brain_release", "brain_connect",
                    reset_table(Snap, tables[pl.i + 1]), pl.i + 1)

\* mutant: a failure of the POST escapes send_error_trace and ends the task
after_report_uncaught(post_ok) == IF post_ok THEN "sleeping" ELSE "crashed"

\* where background_reload_data goes after the except block, lines 183-185:
\* send_error_trace swallows a failure of the POST, the loop goes on
after_report(post_ok) == "sleeping"

\* where lifespan is after preload_all_data has returned: lines 194-195
after_first_build == "serving"

\* lines 174-175 and the return to the caller
preload_returns ==
    /\ Runnable
    /\ pl.pc = "brain_release"
    /\ pl.i = Len(tables)
    /\ Install(set_reload_time(Snap))
    /\ pl' = Idle
    /\ IF pl.task = "lifespan"
       THEN /\ life' = after_first_build
            /\ bg' = "sleeping"
            /\ hist' = [hist EXCEPT !.built = TRUE]
       ELSE /\ bg' = "sleeping"
            /\ UNCHANGED <<life, hist>>
    /\ UNCHANGED <<db, req, resp>>

\* an await of preload_all_data raises (the store fails): the exception
\* reaches lifespan (startup fails) or the except block of line 183,
\* which enters send_error_trace
preload_raises ==
    /\ Runnable
    /\ pl.task # "none"
    /\ pl' = Idle
    /\ IF pl.task = "lifespan"
       THEN /\ life' = "failed"
            /\ UNCHANGED <<bg, hist>>
       ELSE /\ bg' = "reporting"
            /\ hist' = [hist EXCEPT !.failed = TRUE]
            /\ UNCHANGED life
    /\ UNCHANGED <<db, snapvars, req, resp>>

\* lines 33-38: requests.post returns or raises, and the loop goes on
post_returns ==
    /\ bg = "reporting"
    /\ \E post_ok \in BOOLEAN : bg' = after_report(post_ok)
    /\ UNCHANGED <<db, snapvars, life, pl, req, resp, hist>>

\* how many background rebuilds the service lives to start
MaxReloads == 1

\* line 180-182: the sleep is over
wake_up ==
    /\ LoopFree
    /\ bg = "sleeping"
    /\ bg' = "reloading"
    /\ pl' = [task |-> "bg", pc |-> "vlad_connect", i |-> 0]
    /\ hist' = [hist EXCEPT !.old = Snap, !.changed = FALSE,
                            !.reloads = IF @ < MaxReloads THEN @ + 1 ELSE @]
    /\ UNCHANGED <<db, snapvars, life, req, resp>>

\* the sleep is over, in a service that lives to start MaxReloads rebuilds
sleep_elapsed == hist.reloads < MaxReloads /\ wake_up

\* lines 196-197: the server shuts down; task.cancel() and the first dispose
shutdown ==
    /\ LoopFree
    /\ life = "serving"
    /\ req = NoReq
    /\ life' = "dispose_vlad"
    /\ bg' = "cancelling"
    /\ UNCHANGED <<db, snapvars, pl, req, resp, hist>>

\* the cancelled task is resumed with CancelledError, which line 183 does not catch
task_cancelled ==
    /\ bg = "cancelling"
    /\ bg' = "cancelled"
    /\ pl' = Idle
    /\ UNCHANGED <<db, snapvars, life, req, resp, hist>>

\* lines 197-198
disposed ==
    /\ life \in {"dispose_vlad", "dispose_brain"}
    /\ life' = IF life = "dispose_vlad" THEN "dispose_brain" ELSE "stopped"
    /\ UNCHANGED <<db, snapvars, bg, pl, req, resp, hist>>

\* external collaborators change the store (what they do to it once the
\* service has been shut down or has failed to start is of no consequence).
\* The engines are created without an isolation level (lines 58-59): each
\* statement of a rebuild reads the store as committed when the statement is
\* executed, which is what a server at READ COMMITTED gives.
ext_change ==
    /\ life \in {"startup", "serving"}
    /\ \E d \in ExtChanges(db) : d # db /\ db' = d
    /\ hist' = [hist EXCEPT !.changed = pl.task # "none"]
    /\ UNCHANGED <<snapvars, life, bg, pl, req, resp>>

-----------------------------------------------------------------------------
(* Requests *)

\* the status of the response when a handler returns a value
HTTP_OK == 200

\* the status of HTTPException(status_code=400)
HTTP_BAD_REQUEST == 400

\* mutant: requests are handled while the first build is still running
accepting_early(l) == l \in {"startup", "serving"}

\* the server handles requests between the yield of lifespan (line 195) and
\* its resumption at shutdown
accepting(l) == l = "serving"

ValuesReq(pair, day, date) == [kind |-> "values", pair |-> pair, day |-> day, date |-> date]

\* the response of get_values (lines 327-329) with, for the record, the
\* intermediate lists of calculate_pure_memory and its dict `result` before
\* line 268
ValuesResp(S, r, in_rebuild) ==
    LET target_date == parse_date_string(r.date)
        rates_table == get_rates_table_name(r.pair, r.day)
        ne          == IF target_date = NULL THEN <<>>
                       ELSE needed_events(S, target_date, r.day)
    IN  [kind       |-> "values",
         pair       |-> r.pair,
         day        |-> r.day,
         date       |-> r.date,
         status     |-> HTTP_OK,
         table      |-> rates_table,
         unit       |-> offset_unit(r.day),
         in_window  |-> IF target_date = NULL THEN <<>>
                        ELSE events_in_window(S, target_date, r.day),
         needed     |-> ne,
         raw        |-> result_loop(S, ne, rates_table, get_modification_factor(r.pair),
                                    target_date, r.day),
         totals     |-> trend_totals(S, ne, rates_table, target_date),
         body       |-> calculate_pure_memory(S, r.pair, r.day, r.date),
         in_rebuild |-> in_rebuild]

\* GET /weights
WeightsReq == [kind |-> "weights"]

\* the requests clients send to the running service
ReqArgs == {ValuesReq(3, 0, T0), WeightsReq}

\* a client sends GET /values or GET /weights
request_arrives ==
    /\ accepting(life)
    /\ req = NoReq
    /\ \E r \in ReqArgs : req' = r
    /\ UNCHANGED <<db, snapvars, life, bg, pl, resp, hist>>

\* get_values runs on the event loop: calculate_pure_memory has no await
get_values ==
    /\ LoopFree
    /\ accepting(life)
    /\ req.kind = "values"
    /\ resp' = ValuesResp(Snap, req, pl.task # "none")
    /\ Install(compute_effect(Snap, req.date, req.day))
    /\ req' = NoReq
    /\ UNCHANGED <<db, life, bg, pl, hist>>

\* the response of get_weights with, for the record, the event types of the
\* snapshot it was taken from
WeightsResp(S, in_rebuild) ==
    [kind        |-> "weights",
     weights     |-> S.weight_codes,
     event_types |-> S.event_types,
     in_rebuild  |-> in_rebuild]

\* get_weights, lines 322-324
get_weights ==
    /\ LoopFree
    /\ accepting(life)
    /\ req.kind = "weights"
    /\ resp' = WeightsResp(Snap, pl.task # "none")
    /\ req' = NoReq
    /\ UNCHANGED <<db, snapvars, life, bg, pl, hist>>

Next ==
    \/ lifespan_enter
    \/ vlad_connected
    \/ weight_codes_loaded
    \/ event_types_loaded
    \/ calendar_loaded
    \/ vlad_released
    \/ brain_connected
    \/ rows_loaded
    \/ min_loaded
    \/ max_loaded
    \/ next_table
    \/ preload_returns
    \/ preload_raises
    \/ post_returns
    \/ sleep_elapsed
    \/ shutdown
    \/ task_cancelled
    \/ disposed
    \/ ext_change
    \/ request_arrives
    \/ get_values
    \/ get_weights

Spec == Init /\ [][Next]_vars

-----------------------------------------------------------------------------
(* The request-side functions applied to bounded sets of snapshots *)

\* the farthest occurrence of the stores below, in granularity units
MaxShift == 13

\* how many occurrences the stores below hold around the target
MaxOcc == 1

\* how many candles before the target the stores below hold at most
MaxCandles == 2

OccOffsets == {-MaxShift, -window, -3, 0, 1, window, MaxShift}

OccTimes ==
    {T0 + k * HOUR : k \in OccOffsets} \cup {T0 + k * DAY : k \in OccOffsets}
        \cup {T0 + 30, T0 - 90}

\* occurrences around the target: events 1 (cyclic), 2 (counted once) and
\* 3 (absent from the event index), of low, medium and unknown importance
WindowOccs == {Occ(e, t, imp) : e \in {1, 2, 3}, t \in OccTimes, imp \in {1, 2, NULL}}

RECURSIVE SeqsUpTo(_, _)
SeqsUpTo(S, n) ==
    IF n = 0 THEN {<<>>}
    ELSE SeqsUpTo(S, n - 1) \cup
         {Append(q, x) : q \in {y \in SeqsUpTo(S, n - 1) : Len(y) = n - 1}, x \in S}

\* occurrences long before the target
PastOccs ==
    << Occ(1, T0 - 15 * DAY, 1), Occ(1, T0 - 14 * DAY, 1),
       Occ(2, T0 - 15 * DAY, 1), Occ(3, T0 - 15 * DAY, 1) >>

CandleDates == {T0 + k * HOUR : k \in (0 - MaxCandles)..1}

CandleRows == {Row(10, 12, 5, 9, 13), Row(10, 8, 6, 7, 11), Row(10, 10, 7, 9, 12)}

CandleTables == UNION {[D -> CandleRows] : D \in SUBSET CandleDates}

CalcDB(occs, eur_hour) ==
    [DB0 EXCEPT !.calendar = PastOccs \o occs, !.rates[tables[1]] = eur_hour]

\* hourly tables for the trend value: a maximum alone at A, a minimum alone
\* at B, a maximum alone at T0, where A, B and T0 are the timestamps three
\* hours after the occurrences of event 1 in PastOccs and in TrendOccs;
\* the rate at B is not recorded
ExtremumRows ==
    LET A == T0 - 15 * DAY + 3 * HOUR
        B == T0 - 14 * DAY + 3 * HOUR
    IN  (A - HOUR :> Row(10, 11, 1, 5, 10)) @@ (A :> Row(10, 11, 300, 5, 12)) @@
        (A + HOUR :> Row(10, 11, 1, 5, 10)) @@
        (B - HOUR :> Row(10, 11, 1, 5, 10)) @@ (B :> Row(10, 11, NULL, 3, 10)) @@
        (B + HOUR :> Row(10, 11, 1, 5, 10))

\* the rows from the target on, with the rate t1 at the target
LateRows(t1) == (T0 :> Row(12, 11, t1, 9, 15)) @@ (T0 + HOUR :> Row(11, 11, 7, 9, 14))

\* the candle before the target: bullish, bearish, close = open
PriorRows == {Row(10, 12, 5, 9, 13), Row(12, 10, 5, 9, 13), Row(10, 10, 5, 9, 13)}

TargetRates == {12000000, -296}

TrendTables ==
    {ExtremumRows @@ (T0 - HOUR :> r) @@ LateRows(t1) : r \in PriorRows, t1 \in TargetRates}
        \cup {LateRows(t1) : t1 \in TargetRates}

TrendOccs == { <<Occ(1, T0 - 3 * HOUR, 2)>>, <<Occ(2, T0, 1)>>, <<Occ(3, T0, 2)>> }

\* stores whose calendar begins at the target or after it
EarlyOccs ==
    { <<Occ(1, T0, 2)>>, <<Occ(1, T0 + HOUR, 2)>>,
      <<Occ(1, T0 + DAY, 2), Occ(1, T0 + window * HOUR, 3)>>,
      <<Occ(2, T0, 1), Occ(1, T0 + HOUR, 2)>> }

EarlyDB(occs, eur_hour) ==
    [DB0 EXCEPT !.calendar = occs, !.rates[tables[1]] = eur_hour]

\* a daily table with a day whose max is above, and whose min is below,
\* those of the day before and of the day after
EurDayPeak ==
    (T0 - 2 * DAY :> Row(10, 9, 300, 5, 10)) @@ (T0 - DAY :> Row(9, 12, 70, 3, 15)) @@
    (T0 :> Row(12, 11, 80, 5, 11))

DayDB == [DB0 EXCEPT !.rates[tables[2]] = EurDayPeak]

CalcDBs ==
    {DayDB} \cup
    {CalcDB(w, EurHour) : w \in SeqsUpTo(WindowOccs, MaxOcc)}
        \cup {CalcDB(<<>>, tab) : tab \in CandleTables}
        \cup {CalcDB(w, tab) : w \in TrendOccs, tab \in TrendTables}
        \cup {EarlyDB(w, tab) : w \in EarlyOccs, tab \in {EurHour, LateRows(12000000)}}

CalcArgs ==
    {ValuesReq(p, d, T0) : p \in {1, 3, 4, 7}, d \in {0, 1, 2}} \cup {ValuesReq(1, 0, BadDate)}

TrendTargets == {T0 + k * HOUR : k \in (0 - MaxCandles - 1)..2} \cup {T0 - 30}

\* the service after a complete build from one of the stores
InitCalc ==
    /\ db \in CalcDBs
    /\ Installed(Build(EmptySnap, db))
    /\ life = "serving"
    /\ bg = "sleeping"
    /\ pl = Idle
    /\ req = NoReq
    /\ resp = NoReq
    /\ hist = [old |-> EmptySnap, changed |-> FALSE, failed |-> FALSE,
               reloads |-> 0, built |-> TRUE]

\* calculate_pure_memory applied to the snapshot (one call per behaviour:
\* a call changes nothing a later call reads)
calc_values ==
    /\ resp = NoReq
    /\ \E r \in CalcArgs :
          /\ resp' = ValuesResp(Snap, r, FALSE)
          /\ Install(compute_effect(Snap, r.date, r.day))
    /\ UNCHANGED <<db, life, bg, pl, req, hist>>

\* a second call of calculate_pure_memory with the arguments of the first
calc_again ==
    /\ resp.kind = "values"
    /\ resp' = [kind   |-> "repeat",
                first  |-> resp,
                second |-> ValuesResp(Snap, ValuesReq(resp.pair, resp.day, resp.date), FALSE)]
    /\ Install(compute_effect(Snap, resp.date, resp.day))
    /\ UNCHANGED <<db, life, bg, pl, req, hist>>

\* find_prev_candle_trend applied to the snapshot
calc_trend ==
    /\ resp = NoReq
    /\ \E p \in {1}, d \in {0, 1}, t \in TrendTargets :
          resp' = [kind   |-> "trend",
                   table  |-> get_rates_table_name(p, d),
                   target |-> t,
                   result |-> find_prev_candle_trend(Snap, get_rates_table_name(p, d), t)]
    /\ UNCHANGED <<db, snapvars, life, bg, pl, req, hist>>

NextCalc == calc_values \/ calc_trend

SpecCalc == InitCalc /\ [][NextCalc]_vars

-----------------------------------------------------------------------------
(* The generator script, run offline: the service is not started *)

\* how many events the lists given to the generator hold at most
MaxEvents == 3

\* lists of event definitions with distinct ids
EventLists ==
    {l \in SeqsUpTo({EventDef(i, t) : i \in 1..4, t \in {"0", "1"}}, MaxEvents) :
        \A i, j \in DOMAIN l : l[i].EventId = l[j].EventId => i = j}

\* generate_binary_matrix applied to a list of events
calc_codes ==
    /\ resp = NoReq
    /\ \E l \in EventLists :
          resp' = [kind |-> "codes", events |-> l, codes |-> generate_binary_matrix(l)]
    /\ UNCHANGED <<db, snapvars, life, bg, pl, req, hist>>

NextGen == calc_codes

SpecGen == Init /\ [][NextGen]_vars

-----------------------------------------------------------------------------
(* GET /new_weights against bounded catalogs.  A row of
   vlad_investing_weights_table is modelled by its code: the columns EventId,
   event_type and mode_val are the first three components, hour_shift is
   the fourth, and is NULL when the code has three components *)

\* the value COALESCE and the handler put in the place of a missing shift
NO_SHIFT == -999999

\* GET /new_weights?code=...: `parts` is code.split("_"), as integers where
\* they are integers; all_int tells whether the parts the handler converts
\* (the first four) are all integers
NewWeightsReq(parts, all_int) == [kind |-> "new_weights", parts |-> parts, all_int |-> all_int]

\* a < b on tuples of integers of the same length: the row comparison of SQL
RECURSIVE LexLess(_, _)
LexLess(a, b) ==
    IF a = <<>> THEN FALSE
    ELSE Head(a) < Head(b) \/ (Head(a) = Head(b) /\ LexLess(Tail(a), Tail(b)))

\* (EventId, event_type, mode_val, COALESCE(hour_shift, -999999)) of a row
filter_key(code) ==
    <<code[1], code[2], code[3], IF Len(code) > 3 THEN code[4] ELSE NO_SHIFT>>

\* mutant: >= in the place of >
row_selected_incl(code, key) == ~LexLess(filter_key(code), key)

\* the WHERE clause, lines 362-363
row_selected(code, key) == LexLess(key, filter_key(code))

\* ORDER BY EventId, event_type, mode_val, hour_shift IS NULL, hour_shift
order_key(code) ==
    <<code[1], code[2], code[3], IF Len(code) > 3 THEN 0 ELSE 1,
      IF Len(code) > 3 THEN code[4] ELSE 0>>

\* get_new_weights, lines 349-371
new_weights_response(d, r) ==
    IF Len(r.parts) < 3 \/ ~r.all_int
    THEN [kind |-> "new_weights", parts |-> r.parts, status |-> HTTP_BAD_REQUEST,
          weights |-> <<>>]
    ELSE LET hshift == IF Len(r.parts) > 3 THEN r.parts[4] ELSE NO_SHIFT
             key    == <<r.parts[1], r.parts[2], r.parts[3], hshift>>
             rows   == SelectSeq(d.weights, LAMBDA code : row_selected(code, key))
         IN  [kind |-> "new_weights", parts |-> r.parts, status |-> HTTP_OK,
              weights |-> SortSeq(rows, LAMBDA a, b : LexLess(order_key(a), order_key(b)))]

\* how many events the catalogs hold at most
MaxCatalog == 2

CatalogLists ==
    {l \in SeqsUpTo({EventDef(i, t) : i \in 1..3, t \in {"0", "1"}}, MaxCatalog) :
        \A i, j \in DOMAIN l : l[i].EventId = l[j].EventId => i = j}

\* stores whose weights table is the file the generator wrote for a list
CatalogDBs == {[DB0 EXCEPT !.weights = generate_binary_matrix(l)] : l \in CatalogLists}

NewWeightsArgs ==
    {NewWeightsReq(p, TRUE) :
        p \in { <<0, 0, 0>>, <<1, 1, 0>>, <<1, 1, 0, -12>>, <<1, 1, 0, 3>>, <<1, 1, 1, 12>>,
                <<1, 0, 1>>, <<2, 1, 0, -1>>, <<1, 1>>, <<2, 1, 0, 3, 9>> }}
        \cup {NewWeightsReq(<<1, 1, 0, 0>>, FALSE)}

InitCat ==
    /\ db \in CatalogDBs
    /\ Installed(Build(EmptySnap, db))
    /\ life = "serving"
    /\ bg = "sleeping"
    /\ pl = Idle
    /\ req = NoReq
    /\ resp = NoReq
    /\ hist = [old |-> EmptySnap, changed |-> FALSE, failed |-> FALSE,
               reloads |-> 0, built |-> TRUE]

\* get_new_weights runs its query against the store
get_new_weights ==
    /\ resp = NoReq
    /\ \E r \in NewWeightsArgs : resp' = new_weights_response(db, r)
    /\ UNCHANGED <<db, snapvars, life, bg, pl, req, hist>>

NextCat == get_new_weights

SpecCat == InitCat /\ [][NextCat]_vars

-----------------------------------------------------------------------------
(* The event types across a rebuild: the service has completed a build, the
   event index is then rewritten, and a rebuild runs while the store is
   left alone; calculate_pure_memory is called, once or twice, before the
   index is rewritten, before the rebuild or after it *)

\* the greatest occurrence_count of the event indexes below
MaxCount == 2

\* occurrence_count: NULL or a number
Counts == {NULL} \cup 0..MaxCount

\* the event indexes: events 1 and 2, each present or not
EventIndexes == UNION {[D -> Counts] : D \in SUBSET {1, 2}}

TypeDBs == {[DB0 EXCEPT !.events = ev] : ev \in EventIndexes}

InitTypes ==
    /\ db \in TypeDBs
    /\ Installed(Build(EmptySnap, db))
    /\ life = "serving"
    /\ bg = "sleeping"
    /\ pl = Idle
    /\ req = NoReq
    /\ resp = NoReq
    /\ hist = [old |-> EmptySnap, changed |-> FALSE, failed |-> FALSE,
               reloads |-> 0, built |-> TRUE]

\* the event index is rewritten: rows are added, updated or removed
index_rewritten ==
    /\ ~hist.changed
    /\ resp = NoReq
    /\ \E d \in TypeDBs : d # db /\ db' = d
    /\ hist' = [hist EXCEPT !.changed = TRUE]
    /\ UNCHANGED <<snapvars, life, bg, pl, req, resp>>

\* a whole background rebuild, from the end of the sleep to the return of
\* preload_all_data, while the store is left alone
rebuild_completes ==
    /\ hist.changed
    /\ hist.reloads = 0
    /\ resp = NoReq
    /\ Install(Build(Snap, db))
    /\ hist' = [hist EXCEPT !.old = Snap, !.reloads = 1]
    /\ UNCHANGED <<db, life, bg, pl, req, resp>>

NextTypes == index_rewritten \/ rebuild_completes \/ calc_values \/ calc_again

SpecTypes == InitTypes /\ [][NextTypes]_vars

-----------------------------------------------------------------------------
(* The lifespan and the background loop against an unchanging store and
   without requests, for as long as the service runs, under the scheduling
   the code relies on: asyncio.sleep(3600) ends and its task is resumed,
   requests.post(..., timeout=10) returns or raises, and the awaits of
   engine.dispose() return *)

NextLive ==
    \/ lifespan_enter
    \/ vlad_connected
    \/ weight_codes_loaded
    \/ event_types_loaded
    \/ calendar_loaded
    \/ vlad_released
    \/ brain_connected
    \/ rows_loaded
    \/ min_loaded
    \/ max_loaded
    \/ next_table
    \/ preload_returns
    \/ preload_raises
    \/ post_returns
    \/ wake_up
    \/ shutdown
    \/ task_cancelled
    \/ disposed

SpecLive ==
    /\ Init
    /\ [][NextLive]_vars
    /\ WF_vars(post_returns)
    /\ WF_vars(wake_up)
    /\ WF_vars(disposed)

-----------------------------------------------------------------------------
(* Properties *)

\* get_values answers the pending request in this step
Answers == req.kind = "values" /\ req' = NoReq

\* C1: a feature computation that runs at an await point of a rebuild returns
\* what it would return against the complete snapshot from before the rebuild
\* or against the complete snapshot the rebuild produces (stated for the
\* rebuilds during which the store does not change)
C1_SnapshotIsolation ==
    [][(Answers /\ pl.task # "none" /\ ~hist.changed) =>
          resp'.body \in
            {calculate_pure_memory(hist.old, req.pair, req.day, req.date),
             calculate_pure_memory(Build(hist.old, db), req.pair, req.day, req.date)}]_vars

\* C2: when a rebuild has raised, every part of the snapshot is what it was
\* when that rebuild started (stated for the rebuilds of the background loop,
\* which have a complete snapshot to keep)
C2_FailedRebuildKeepsSnapshot ==
    bg = "reporting" => Snap = hist.old

\* C4: no request is accepted or answered, and the background loop does not
\* exist, before the first build has completed (the snapshot then carries a
\* reload time); after a failed first build nothing is ever served
C4_FirstBuildBeforeService ==
    /\ (req # NoReq \/ resp # NoReq \/ bg # "none") => (hist.built /\ life # "failed")
    /\ resp # NoReq => LAST_RELOAD_TIME # NULL
    /\ life = "failed" => ~hist.built

\* C4: a request has been answered
C4_Witness == resp # NoReq /\ hist.built /\ bg = "sleeping"

\* C5: after a failed background rebuild, a further rebuild is started
\* unless the service is shut down
C5_NextAttemptAfterFailure ==
    (bg = "reporting") ~> (bg = "reloading" \/ life # "serving")

\* C5: a rebuild is running after an earlier one has failed
C5_Witness == hist.failed /\ bg = "reloading" /\ pl.pc = "q_calendar"

\* C6: an accepted request never has to wait for the event loop
C6_RequestsNeverWait == (req # NoReq /\ accepting(life)) => LoopFree

\* the target of the last /values response
RespTarget == parse_date_string(resp.date)

\* the granularity unit of the last /values response: hours when day = 0
RespUnit == IF resp.day = 0 THEN 60 ELSE 1440

\* the timestamps target + k units, k in -12..12
RespWindow == {RespTarget + k * RespUnit : k \in -12..12}

\* the occurrences of the store as the snapshot holds them
StoreOccs ==
    {[EventId |-> r.event_id, Importance |-> r.importance,
      event_date |-> r.occurrence_time_utc] :
        r \in {x \in Range(db.calendar) : x.event_id # NULL}}

\* the candidates: the occurrences of the store at the window's timestamps
RespCandidates == {c \in StoreOccs : c.event_date \in RespWindow}

ValuesAnswered == resp.kind = "values" /\ RespTarget # NULL

\* C3 (as stated): the selector keeps the candidates of importance 1 and
\* those at the target, and drops the others
C3_KeepsTopImportance ==
    ValuesAnswered =>
        Range(resp.in_window) =
            {c \in RespCandidates : c.Importance = 1 \/ c.event_date = RespTarget}

\* C3 (amended): the selector drops the candidates of importance 1 and keeps
\* those of any other importance, except that a candidate at the target is
\* kept whatever its importance
C3_DropsImportanceOne ==
    ValuesAnswered =>
        Range(resp.in_window) =
            {c \in RespCandidates : c.Importance # 1 \/ c.event_date = RespTarget}

\* C3: an occurrence of importance 2 away from the target has been kept
C3_Witness ==
    /\ ValuesAnswered
    /\ \E c \in Range(resp.in_window) : c.Importance = 2 /\ c.event_date # RespTarget

\* C7 (as stated): an occurrence k units after the target gets shift +k
C7_ShiftIsOccurrenceMinusTarget ==
    ValuesAnswered =>
        \A t \in Range(resp.needed) : \A k \in -12..12 :
            t.e.event_date = RespTarget + k * RespUnit => t.shift = k

\* C7 (amended): every surviving occurrence lies a whole number k of units
\* after the target, k in -12..12, and its shift is -k
C7_ShiftIsTargetMinusOccurrence ==
    ValuesAnswered =>
        \A t \in Range(resp.needed) :
            /\ \E k \in -12..12 : t.e.event_date = RespTarget + k * RespUnit
            /\ \A k \in -12..12 :
                  t.e.event_date = RespTarget + k * RespUnit => t.shift = -k

\* C7: an occurrence 12 days after the target survived, with shift -12
C7_Witness ==
    /\ ValuesAnswered
    /\ resp.day = 1
    /\ \E t \in Range(resp.needed) :
          t.e.event_date = RespTarget + 12 * 1440 /\ t.shift = -12

\* an event the store counts at most once, or does not index at all
StoreType0(eid) == eid \notin DOMAIN db.events \/ db.events[eid] <= 1

\* C8: no triple of a type0 event has a nonzero shift
C8_Type0OnlyAtZeroShift ==
    ValuesAnswered =>
        \A t \in Range(resp.needed) :
            (t.evt_type = 0 \/ StoreType0(t.e.EventId)) => (t.shift = 0 /\ t.evt_type = 0)

\* C8: an occurrence of an event absent from the type map, one hour after
\* the target, passed the importance filter and was not emitted
C8_Witness ==
    /\ ValuesAnswered
    /\ resp.day = 0
    /\ \E c \in Range(resp.in_window) : c.EventId = 3 /\ c.event_date = RespTarget + 60
    /\ resp.needed = <<>>

\* C9: no triple of a type1 event has |shift| > 12, and an occurrence of a
\* type1 event that passes the importance filter is emitted exactly when its
\* timestamp is one of the 25 timestamps target + k units, k in -12..12
C9_Type1WithinWindow ==
    ValuesAnswered =>
        /\ Cardinality(RespWindow) = 25
        /\ \A t \in Range(resp.needed) :
              t.evt_type = 1 => (t.shift >= -12 /\ t.shift <= 12)
        /\ \A c \in StoreOccs :
              (~StoreType0(c.EventId) /\ (c.Importance # 1 \/ c.event_date = RespTarget)) =>
                  ((\E t \in Range(resp.needed) : t.e = c) <=> c.event_date \in RespWindow)

\* C9: an occurrence of a type1 event 12 hours before the target was emitted
C9_Witness ==
    /\ ValuesAnswered
    /\ resp.day = 0
    /\ \E t \in Range(resp.needed) :
          t.evt_type = 1 /\ t.shift = 12 /\ t.e.event_date = RespTarget - 12 * 60

\* the candles of the table of the last trend lookup
RespCandles == DictGet(GLOBAL_LAST_CANDLES, resp.table, <<>>)

\* C10: the trend lookup returns the candle of the greatest timestamp
\* strictly before the target, and none when there is no such candle
C10_NearestPriorCandle ==
    resp.kind = "trend" =>
        LET prior == {i \in DOMAIN RespCandles : RespCandles[i][1] < resp.target}
        IN  IF prior = {} THEN resp.result = NoCandle
            ELSE \E i \in prior :
                    /\ resp.result = RespCandles[i]
                    /\ \A j \in prior : RespCandles[j][1] <= RespCandles[i][1]

\* C10: a lookup at the timestamp of a bearish candle returned the candle before it
C10_Witness ==
    /\ resp.kind = "trend"
    /\ resp.result # NoCandle
    /\ \E i \in DOMAIN RespCandles :
          RespCandles[i] = <<resp.target, FALSE>> /\ i > 1 /\ resp.result = RespCandles[i - 1]

\* the table of the last /values response
RespTable == get_rates_table_name(resp.pair, resp.day)

\* the rows of that table in the store
RespRows == db.rates[RespTable]

\* the rate the store records at a timestamp of that table, 0 when it records none
StoreRate(dt) ==
    IF dt \in DOMAIN RespRows /\ RespRows[dt].t1 # NULL THEN RespRows[dt].t1 ELSE 0

\* the rows of the store's calendar that are occurrences of an event
\* strictly before the target of the last response
StoreHistory(eid) ==
    {i \in DOMAIN db.calendar :
        /\ db.calendar[i].event_id = eid
        /\ db.calendar[i].occurrence_time_utc < RespTarget}

\* the timestamp `shift` units after the occurrence of row i
Shifted(i, shift) == db.calendar[i].occurrence_time_utc + shift * RespUnit

\* the sum of the rates `shift` units after every occurrence of StoreHistory
RECURSIVE SumRates(_, _)
SumRates(rows, shift) ==
    IF rows = {} THEN 0
    ELSE LET i == CHOOSE x \in rows : TRUE
         IN  StoreRate(Shifted(i, shift)) + SumRates(rows \ {i}, shift)

\* the key of a triple for a mode
TripleKey(t, mode) ==
    IF t.evt_type = 1 THEN <<t.e.EventId, 1, mode, t.shift>> ELSE <<t.e.EventId, 0, mode>>

\* C11: for every surviving triple of an event with history before the
\* target, the value under the mode-0 key is the sum of the rates `shift`
\* units after every occurrence strictly before the target, an unrecorded
\* rate counting 0
C11_Mode0IsSumOfShiftedRates ==
    ValuesAnswered =>
        \A t \in Range(resp.needed) :
            StoreHistory(t.e.EventId) # {} =>
                /\ TripleKey(t, 0) \in DOMAIN resp.raw
                /\ resp.raw[TripleKey(t, 0)] =
                      [c |-> SumRates(StoreHistory(t.e.EventId), t.shift), m |-> 1, d |-> 10]

\* C11: three occurrences before the target, shifted by three hours: one
\* recorded rate long ago, one unrecorded, and the rate at the target
C11_Witness ==
    /\ ValuesAnswered
    /\ resp.day = 0
    /\ \E t \in Range(resp.needed) :
          /\ t.shift = 3
          /\ Cardinality(StoreHistory(t.e.EventId)) = 3
          /\ resp.raw[TripleKey(t, 0)].c = 12000300
          /\ resp.body.values[TripleKey(t, 0)] = 1200030

\* the timestamps of the store's rows before the target
PriorCandles == {dt \in DOMAIN RespRows : dt < RespTarget}

\* the row of the store just before the target
PriorRow == RespRows[CHOOSE dt \in PriorCandles : \A x \in PriorCandles : x <= dt]

\* the extremum set the prior candle selects
SelectedExtremums ==
    IF PriorRow.close > PriorRow.open
    THEN GLOBAL_EXTREMUMS[RespTable].max
    ELSE GLOBAL_EXTREMUMS[RespTable].min

\* C12: with a prior candle, the value under the mode-1 key of a surviving
\* triple with history is (matches / total * 2 - 1) * scale factor
C12_Mode1IsScaledMatchRatio ==
    (ValuesAnswered /\ PriorCandles # {}) =>
        \A t \in Range(resp.needed) :
            StoreHistory(t.e.EventId) # {} =>
                LET total   == Cardinality(StoreHistory(t.e.EventId))
                    matches == Cardinality({i \in StoreHistory(t.e.EventId) :
                                              Shifted(i, t.shift) \in SelectedExtremums})
                IN  /\ TripleKey(t, 1) \in DOMAIN resp.raw
                    /\ resp.raw[TripleKey(t, 1)] =
                          [c |-> 2 * matches - total,
                           m |-> get_modification_factor(resp.pair),
                           d |-> total]

\* C12: the prior candle closed where it opened, and the one match of three
\* was counted in the set of minima
C12_Witness ==
    /\ ValuesAnswered
    /\ resp.pair = 1
    /\ PriorCandles # {}
    /\ PriorRow.close = PriorRow.open
    /\ GLOBAL_EXTREMUMS[RespTable].max # GLOBAL_EXTREMUMS[RespTable].min
    /\ \E t \in Range(resp.needed) :
          /\ resp.raw[TripleKey(t, 1)] = [c |-> -1, m |-> 1000, d |-> 3]
          /\ resp.body.values[TripleKey(t, 1)] = -333

\* C13: without a candle before the target the result holds no mode-1 key,
\* and the division of the trend value is never by zero
C13_NoTrendWithoutCandle ==
    ValuesAnswered =>
        /\ PriorCandles = {} =>
              \A k \in (DOMAIN resp.raw) \cup (DOMAIN resp.body.values) : k[3] # 1
        /\ 0 \notin resp.totals

\* C13: no candle before the target, and a mode-0 key is returned
C13_Witness ==
    /\ ValuesAnswered
    /\ PriorCandles = {}
    /\ resp.needed # <<>>
    /\ \E k \in DOMAIN resp.body.values : k[3] = 0

\* C14: no value of the returned map is 0
C14_NoZeroAfterRounding ==
    ValuesAnswered => \A k \in DOMAIN resp.body.values : resp.body.values[k] # 0

\* C15: every key is of an event with an occurrence strictly before the
\* target, and the map is empty when every occurrence is after the target
C15_NoHistoryNoKey ==
    ValuesAnswered =>
        /\ \A k \in (DOMAIN resp.raw) \cup (DOMAIN resp.body.values) :
              StoreHistory(k[1]) # {}
        /\ (\A c \in StoreOccs : c.event_date > RespTarget) =>
              resp.body = [error |-> FALSE, values |-> EmptyDict]

\* C15: occurrences inside the window, all after the target, and an empty map
C15_Witness ==
    /\ ValuesAnswered
    /\ StoreOccs # {}
    /\ \A c \in StoreOccs : c.event_date > RespTarget
    /\ resp.needed # <<>>
    /\ resp.body.values = EmptyDict

RECURSIVE Definitions(_)
Definitions(types) ==
    IF DOMAIN types = {} THEN <<>>
    ELSE LET eid  == CHOOSE x \in DOMAIN types : \A y \in DOMAIN types : x <= y
             rest == [y \in (DOMAIN types) \ {eid} |-> types[y]]
         IN  <<[EventId |-> eid, EventType |-> IF types[eid] = 1 THEN "1" ELSE "0"]>>
                 \o Definitions(rest)

\* C17: every key of a returned map is one of the codes the generator emits
\* for the event definitions of the snapshot
C17_KeysInCodeSpace ==
    ValuesAnswered =>
        DOMAIN resp.body.values \subseteq
            Range(generate_binary_matrix(Definitions(GLOBAL_EVENT_TYPES)))

\* C18: a generated code has a shift exactly when its type is 1
C18_ShiftIffType1 ==
    resp.kind = "codes" => \A code \in Range(resp.codes) : (Len(code) = 4) <=> (code[2] = 1)

\* the codes of one event definition
ExpectedCodes(event) ==
    LET ty == IF event.EventType = "1" THEN 1 ELSE 0
    IN  {<<event.EventId, ty, mode>> : mode \in {0, 1}} \cup
        (IF ty = 1
         THEN {<<event.EventId, ty, mode, h>> : mode \in {0, 1}, h \in -12..12}
         ELSE {})

\* C19: the generator emits, for each event, the two codes without a shift
\* and, for a type1 event, the fifty codes with a shift in -12..12; nothing
\* else, and none twice
C19_GeneratorOutput ==
    resp.kind = "codes" =>
        /\ Range(resp.codes) = UNION {ExpectedCodes(resp.events[i]) : i \in DOMAIN resp.events}
        /\ Len(resp.codes) = Cardinality(Range(resp.codes))
        /\ \A i \in DOMAIN resp.events :
              Cardinality({c \in Range(resp.codes) : c[1] = resp.events[i].EventId}) =
                  IF resp.events[i].EventType = "1" THEN 52 ELSE 2

\* C19: the codes of a type0 event and of a type1 event have been generated
C19_Witness ==
    /\ resp.kind = "codes"
    /\ Len(resp.events) >= 2
    /\ resp.events[1].EventType = "0"
    /\ resp.events[2].EventType = "1"
    /\ Len(SelectSeq(resp.codes, LAMBDA c : c[1] \in {resp.events[1].EventId, resp.events[2].EventId})) = 54

\* C20: outside a rebuild, and when none has failed, GET /weights returns
\* the codes the generator emits for the event definitions of the snapshot
C20_WeightsAreCodeSpace ==
    (resp.kind = "weights" /\ ~resp.in_rebuild /\ ~hist.failed) =>
        Range(resp.weights) = Range(generate_binary_matrix(Definitions(resp.event_types)))

\* the code a /new_weights request names: the parts the handler reads
RespCode == IF Len(resp.parts) > 4 THEN SubSeq(resp.parts, 1, 4) ELSE resp.parts

\* (event_id, type, mode, has_shift, shift) of a code
CatalogKey(code) ==
    <<code[1], code[2], code[3], IF Len(code) > 3 THEN 1 ELSE 0,
      IF Len(code) > 3 THEN code[4] ELSE 0>>

\* a code sorts before another in the catalog ordering
CatalogLess(a, b) ==
    \E i \in 1..5 :
        /\ CatalogKey(a)[i] < CatalogKey(b)[i]
        /\ \A j \in 1..(i - 1) : CatalogKey(a)[j] = CatalogKey(b)[j]

\* C21: /new_weights returns the codes of the catalog that are greater than
\* the given code in the catalog ordering, each once, and no other
C21_NewWeightsAreTheGreaterCodes ==
    (resp.kind = "new_weights" /\ resp.status = 200) =>
        /\ Range(resp.weights) = {c \in Range(db.weights) : CatalogLess(RespCode, c)}
        /\ Len(resp.weights) = Cardinality(Range(resp.weights))

\* C21: asked for the codes after 1_1_0, the service returned 1_1_0_-12 and
\* neither 1_1_0 nor any code of mode 0 of a type0 event 1
C21_Witness ==
    /\ resp.kind = "new_weights"
    /\ resp.status = 200
    /\ resp.parts = <<1, 1, 0>>
    /\ <<1, 1, 0>> \in Range(db.weights)
    /\ <<1, 1, 0, -12>> \in Range(resp.weights)
    /\ <<1, 1, 0>> \notin Range(resp.weights)

\* C28: the list /new_weights returns is in the catalog ordering
C28_ListInFilterOrder ==
    (resp.kind = "new_weights" /\ resp.status = 200) =>
        \A i, j \in DOMAIN resp.weights :
            i < j => CatalogLess(resp.weights[i], resp.weights[j])

\* C22: a /values request whose date matches no format gets a client error
\* and no map of values
C22_BadDateIsClientError ==
    (resp.kind = "values" /\ resp.date = BadDate) =>
        /\ resp.status \in 400..499
        /\ resp.body.error

\* C23: a /values request for a pair other than 1, 3 and 4 returns the map
\* of the same request for pair 1
C23_UnknownPairIsDefaultPair ==
    (ValuesAnswered /\ resp.pair \notin {1, 3, 4}) =>
        /\ ~resp.body.error
        /\ resp.body = calculate_pure_memory(Snap, 1, resp.day, resp.date)

\* C27: the offsets are hours exactly when the table is an hourly one
C27_TableMatchesOffsetUnit ==
    ValuesAnswered => ((resp.table[2] = "_day") <=> (resp.unit = 1440))

\* the granularity unit of a table
TableUnit(table) == IF table[2] = "_day" THEN 1440 ELSE 60

\* the timestamps of a table of the store whose column is beyond that of the
\* rows one unit before and one unit after
StoreExtremums(table, typ) ==
    LET rows == db.rates[table]
        u    == TableUnit(table)
    IN  {dt \in DOMAIN rows :
           /\ dt - u \in DOMAIN rows
           /\ dt + u \in DOMAIN rows
           /\ IF typ = "max"
              THEN rows[dt].max > rows[dt - u].max /\ rows[dt].max > rows[dt + u].max
              ELSE rows[dt].min < rows[dt - u].min /\ rows[dt].min < rows[dt + u].min}

\* C24: after a complete rebuild the extremum sets of every table, hourly
\* or daily, are the local extrema with neighbours one unit of the table away
C24_ExtremumsPerGranularity ==
    (LAST_RELOAD_TIME # NULL /\ pl = Idle) =>
        \A i \in DOMAIN tables :
            /\ GLOBAL_EXTREMUMS[tables[i]].max = StoreExtremums(tables[i], "max")
            /\ GLOBAL_EXTREMUMS[tables[i]].min = StoreExtremums(tables[i], "min")

\* C25: when a rebuild has completed, the timestamps of the extremum sets of
\* a table are timestamps of the candles loaded for that table
C25_ExtremumsWithinSeries ==
    (LAST_RELOAD_TIME # NULL /\ bg = "sleeping" /\ ~hist.failed) =>
        \A i \in DOMAIN tables :
            (GLOBAL_EXTREMUMS[tables[i]].min \cup GLOBAL_EXTREMUMS[tables[i]].max)
                \subseteq {c[1] : c \in Range(GLOBAL_LAST_CANDLES[tables[i]])}

\* lifespan has been resumed for the shutdown
ShuttingDown == life \in {"dispose_vlad", "dispose_brain", "stopped"}

\* C26: once the shutdown has begun, no rebuild is started, the rebuild in
\* flight writes nothing more to the snapshot, the background task is
\* cancelled, and both pools end up released
C26_ShutdownCancelsReload ==
    /\ [][ShuttingDown =>
            /\ UNCHANGED snapvars
            /\ pl' = pl \/ pl' = Idle
            /\ bg' \in {"cancelling", "cancelled"}]_vars
    /\ [](ShuttingDown => bg \in {"cancelling", "cancelled"})
    /\ (life = "dispose_vlad") ~> (life = "stopped")

\* C26: the service has stopped after a shutdown that met the rebuild
\* between the reset of the first table and the load of its rows
C26_Witness ==
    /\ life = "stopped"
    /\ bg = "cancelled"
    /\ hist.built
    /\ GLOBAL_LAST_CANDLES[tables[1]] = <<>>
    /\ DOMAIN db.rates[tables[1]] # {}

\* C29: a rebuild is started only when none is in progress, the
\* background loop does not exist during the first build, and it neither
\* sleeps nor reports while its rebuild is in progress
C29_OneRebuildAtATime ==
    [][/\ (pl' # pl /\ pl'.pc = "vlad_connect") => pl.task = "none"
       /\ (pl.task # "none" /\ pl'.task # "none") => pl'.task = pl.task
       /\ pl'.task = "lifespan" => bg' = "none"
       /\ bg' \in {"sleeping", "reporting"} => pl'.task = "none"]_vars

\* C29: a rebuild is in progress after an earlier one has raised
C29_Witness ==
    /\ hist.failed
    /\ pl.task = "bg"
    /\ pl.pc = "q_rows"
    /\ pl.i = 2

\* the snapshot is the result of a rebuild from the store as it is
SnapshotCurrent == ~hist.changed \/ hist.reloads = 1

\* C30: after a rebuild the event-type map has an entry for exactly the
\* events of the index, 1 when the occurrence_count is above 1 and 0 when
\* it is 0, 1 or NULL; and a triple of an event without an entry has type 0
C30_EventTypesFromCounts ==
    /\ SnapshotCurrent =>
          /\ DOMAIN GLOBAL_EVENT_TYPES = DOMAIN db.events
          /\ \A eid \in DOMAIN db.events :
                GLOBAL_EVENT_TYPES[eid] =
                    IF db.events[eid] # NULL /\ db.events[eid] > 1 THEN 1 ELSE 0
    /\ ValuesAnswered =>
          \A t \in Range(resp.needed) :
              t.evt_type = IF t.e.EventId \in DOMAIN GLOBAL_EVENT_TYPES
                           THEN GLOBAL_EVENT_TYPES[t.e.EventId] ELSE 0

\* C30: a rebuild has removed the entry of event 2, which was of type1, and
\* has made event 1, whose count is now NULL, of type0; the occurrence of
\* event 2 at the target was then computed as type0
C30_Witness ==
    /\ hist.reloads = 1
    /\ 2 \in DOMAIN hist.old.event_types
    /\ hist.old.event_types[2] = 1
    /\ 2 \notin DOMAIN GLOBAL_EVENT_TYPES
    /\ 1 \in DOMAIN db.events
    /\ db.events[1] = NULL
    /\ GLOBAL_EVENT_TYPES[1] = 0
    /\ ValuesAnswered
    /\ \E t \in Range(resp.needed) : t.e.EventId = 2 /\ t.evt_type = 0

====
